---- MODULE Spec2Model ----
(***************************************************************************)
(* A model of the lsp-proxy forwarding engine (src/src/proxy.rs), its wire *)
(* codec (src/src/transport.rs) and its message model (src/src/hooks.rs).  *)
(*                                                                         *)
(* One session has four tasks: the two read loops forward_to_server        *)
(* (client -> server) and forward_to_client (server -> client), and the    *)
(* two writer loops write_to_server and write_to_client, joined by two     *)
(* bounded mpsc channels.  Every await point of a read loop is a separate  *)
(* step of the model, so the two read loops and the writers interleave as  *)
(* the tokio tasks do.                                                     *)
(***************************************************************************)
EXTENDS Integers, Sequences, FiniteSets, TLC

\* Bound of the model: the number of well-framed messages a peer's stream
\* carries before it ends.
MaxFrames == 2

\* mpsc::channel::<Message>(100), proxy.rs:104-105
QueueCapacity == 100

----------------------------------------------------------------------------
(* Names *)

Loops == {"client_to_server", "server_to_client"}
Queues == {"server", "client"}
Ids == {1, 2}
Methods == {"foo", "bar", "baz"}

\* ProxyBuilder::with_hook: the registry, method name -> hook instance
hooks == [m \in {"foo", "bar"} |-> IF m = "foo" THEN "FooHook" ELSE "BarHook"]

----------------------------------------------------------------------------
(* serde_json::Value, as far as the program looks into it.  A field of an  *)
(* object is absent, an integer, a string, or some other JSON value.       *)

JAbsent == [k |-> "absent", n |-> 0, s |-> ""]
JInt(i) == [k |-> "int", n |-> i, s |-> ""]
JStr(x) == [k |-> "str", n |-> 0, s |-> x]
\* the JSON value null: a field that is there
JNull == [k |-> "null", n |-> 0, s |-> ""]

JObject(jsonrpc, id, method, params, result, error) ==
    [obj |-> TRUE, jsonrpc |-> jsonrpc, id |-> id, method |-> method,
     params |-> params, result |-> result, error |-> error]

\* a JSON value that is no object (an array, a number, ...)
JNotObject ==
    [obj |-> FALSE, jsonrpc |-> FALSE, id |-> JAbsent, method |-> JAbsent,
     params |-> JAbsent, result |-> JAbsent, error |-> JAbsent]

----------------------------------------------------------------------------
(* enum Message *)

Request(id, method, params) ==
    [type |-> "Request", id |-> id, method |-> method, params |-> params,
     result |-> JAbsent, error |-> JAbsent]

Response(id, result, error) ==
    [type |-> "Response", id |-> id, method |-> "", params |-> JAbsent,
     result |-> result, error |-> error]

Notification(method, params) ==
    [type |-> "Notification", id |-> 0, method |-> method, params |-> params,
     result |-> JAbsent, error |-> JAbsent]

\* placeholder where the program holds no message
NoMessage ==
    [type |-> "None", id |-> 0, method |-> "", params |-> JAbsent,
     result |-> JAbsent, error |-> JAbsent]

\* Value::as_i64 / Value::as_str on an optional field
as_i64(j) == IF j.k = "int" THEN [some |-> TRUE, v |-> j.n] ELSE [some |-> FALSE, v |-> 0]
as_str(j) == IF j.k = "str" THEN [some |-> TRUE, v |-> j.s] ELSE [some |-> FALSE, v |-> ""]

\* Message::from_value: Ok(message) or Err
from_value(value) ==
    IF ~value.obj THEN [ok |-> FALSE, msg |-> NoMessage]
    ELSE LET id == as_i64(value.id)
             method == as_str(value.method)
             params == value.params
             result == value.result
             error == value.error
             has == result.k # "absent" \/ error.k # "absent"
         IN CASE id.some /\ method.some /\ ~has ->
                    [ok |-> TRUE, msg |-> Request(id.v, method.v, params)]
              [] id.some /\ ~method.some /\ has ->
                    [ok |-> TRUE, msg |-> Response(id.v, result, error)]
              [] ~id.some /\ method.some /\ ~has ->
                    [ok |-> TRUE, msg |-> Notification(method.v, params)]
              [] OTHER -> [ok |-> FALSE, msg |-> NoMessage]

\* Message::to_value
to_value(m) ==
    CASE m.type = "Request" ->
            JObject(TRUE, JInt(m.id), JStr(m.method), m.params, JAbsent, JAbsent)
      [] m.type = "Response" ->
            JObject(TRUE, JInt(m.id), JAbsent, JAbsent, m.result, m.error)
      [] OTHER ->
            JObject(TRUE, JAbsent, JStr(m.method), m.params, JAbsent, JAbsent)

----------------------------------------------------------------------------
(* transport::read_message over what is left of a byte stream.  The stream *)
(* is a sequence of tokens; where the sequence ends, the stream has closed.*)
(*   cl       a line "Content-Length: <n>\r\n" with a decimal n            *)
(*   clbad    a line "Content-Length: <x>\r\n" whose x is no number        *)
(*   hdr      any other header line                                        *)
(*   blank    the empty line "\r\n"                                        *)
(*   partial  bytes of a header line with no "\r\n", then end of stream    *)
(*   body     exactly n bytes that parse as JSON (the token's value)       *)
(*   badjson  exactly n bytes that do not parse as JSON                    *)
(*   short    fewer than n bytes, then end of stream                       *)
(*   ioerr    the reader reports an I/O error other than end of stream     *)
(*   idle     the peer keeps the stream open and sends nothing more: the   *)
(*            read never completes ("Pending")                             *)

Tok(t) == [t |-> t, value |-> JNotObject]
Body(v) == [t |-> "body", value |-> v]

ReadOk(v, rest) == [kind |-> "Ok", value |-> v, rest |-> rest]
ReadErr(kind) == [kind |-> kind, value |-> JNotObject, rest |-> <<>>]

\* transport.rs:45-49, the body
read_body(tokens, content_length) ==
    IF ~content_length THEN ReadErr("InvalidData")
    ELSE IF tokens = <<>> THEN ReadErr("UnexpectedEof")
    ELSE CASE Head(tokens).t = "body" -> ReadOk(Head(tokens).value, Tail(tokens))
           [] Head(tokens).t = "badjson" -> ReadErr("InvalidData")
           [] Head(tokens).t = "ioerr" -> ReadErr("Other")
           [] Head(tokens).t = "idle" -> ReadErr("Pending")
           [] OTHER -> ReadErr("UnexpectedEof")

\* transport.rs:11-38, the header lines; content_length is "a length was parsed"
RECURSIVE read_headers(_, _)
read_headers(tokens, content_length) ==
    IF tokens = <<>> THEN ReadErr("UnexpectedEof")
    ELSE LET t == Head(tokens).t
         IN CASE t = "cl" -> read_headers(Tail(tokens), TRUE)
              [] t = "clbad" -> read_headers(Tail(tokens), FALSE)
              [] t = "hdr" -> read_headers(Tail(tokens), content_length)
              [] t = "blank" -> read_body(Tail(tokens), content_length)
              [] t = "ioerr" -> ReadErr("Other")
              [] t = "idle" -> ReadErr("Pending")
              [] OTHER -> ReadErr("UnexpectedEof")

read_message(tokens) == read_headers(tokens, FALSE)

----------------------------------------------------------------------------
(* struct HookOutput and the outcomes of a Hook *)

\* HookOutput::new
HookOutput_new(message) == [message |-> message, generated_messages |-> <<>>]

\* HookOutput::with_messages
with_messages(output, messages) ==
    [output EXCEPT !.generated_messages = @ \o messages]

HookOk(output) == [ok |-> TRUE, output |-> output]
\* Err(HookError::ProcessingFailed(..))
HookErr == [ok |-> FALSE, output |-> HookOutput_new(NoMessage)]

\* Message::notification(method, None), what a hook injects
GenA == Notification("genA", JAbsent)
GenB == Notification("genB", JAbsent)

Gen(direction, message) == [direction |-> direction, message |-> message]

\* lists of (Direction, Message) a registered hook returns in this model
ToServerTwice == <<Gen("ToServer", GenA), Gen("ToServer", GenB)>>
ToClientTwice == <<Gen("ToClient", GenA), Gen("ToClient", GenB)>>
ToBoth == <<Gen("ToClient", GenA), Gen("ToServer", GenB)>>

\* a hook that rewrites the message it is given
Rewrite(message) ==
    IF message.type = "Response"
    THEN [message EXCEPT !.result = JInt(9)]
    ELSE [message EXCEPT !.params = JInt(9)]

\* trait Hook: what on_request / on_response / on_notification of a
\* registered hook may return for a message, when the session's hooks inject
\* the list `generated`: ProcessingFailed, or the message (the default
\* pass-through when nothing is injected, rewritten otherwise) with the list.
HookResults(message, generated) ==
    {HookErr,
     IF generated = <<>>
     THEN HookOk(HookOutput_new(message))
     ELSE HookOk(with_messages(HookOutput_new(Rewrite(message)), generated))}

----------------------------------------------------------------------------
(* enum ProcessedMessage of proxy.rs *)

Forward(message) ==
    [variant |-> "Forward", message |-> message, generated_messages |-> <<>>]

WithMessages(message, generated_messages) ==
    [variant |-> "WithMessages", message |-> message,
     generated_messages |-> generated_messages]

\* ProcessedMessage::into_parts
into_parts(processed) ==
    IF processed.variant = "Forward"
    THEN [main_message |-> processed.message, generated_messages |-> <<>>]
    ELSE [main_message |-> processed.message,
          generated_messages |-> processed.generated_messages]

----------------------------------------------------------------------------
(* pending_requests: DashMap<i64, String> *)

EmptyMap == [k \in {} |-> ""]
\* faulty variant: an entry that is there is kept
insert_keeps_first(map, key, value) ==
    [k \in DOMAIN map \cup {key} |-> IF k \in DOMAIN map THEN map[k] ELSE value]

\* DashMap::insert
insert(map, key, value) ==
    [k \in DOMAIN map \cup {key} |-> IF k = key THEN value ELSE map[k]]
\* DashMap::remove
remove(map, key) == [k \in DOMAIN map \ {key} |-> map[k]]

----------------------------------------------------------------------------
(* Proxy::process_client_message and Proxy::process_server_message, up to  *)
(* the await of the hook: the table after the call, the hook instance the  *)
(* message is handed to ("" for none) with the operation invoked, and the  *)
(* ProcessedMessage when no hook is involved.                              *)

Dispatch(pending, hook, op, processed) ==
    [pending |-> pending, hook |-> hook, op |-> op, processed |-> processed]

\* faulty variant: the request is recorded before the registry is consulted
process_client_message_records_all(message, pending) ==
    CASE message.type = "Request" ->
            IF message.method \in DOMAIN hooks
            THEN Dispatch(insert(pending, message.id, message.method),
                          hooks[message.method], "on_request", Forward(NoMessage))
            ELSE Dispatch(insert(pending, message.id, message.method), "", "",
                          Forward(message))
      [] message.type = "Notification" ->
            IF message.method \in DOMAIN hooks
            THEN Dispatch(pending, hooks[message.method], "on_notification",
                          Forward(NoMessage))
            ELSE Dispatch(pending, "", "", Forward(message))
      [] OTHER -> Dispatch(pending, "", "", Forward(message))

\* faulty variant: the request is not recorded before the hook is awaited
process_client_message_records_late(message, pending) ==
    CASE message.type = "Request" ->
            IF message.method \in DOMAIN hooks
            THEN Dispatch(pending, hooks[message.method], "on_request",
                          Forward(NoMessage))
            ELSE Dispatch(pending, "", "", Forward(message))
      [] message.type = "Notification" ->
            IF message.method \in DOMAIN hooks
            THEN Dispatch(pending, hooks[message.method], "on_notification",
                          Forward(NoMessage))
            ELSE Dispatch(pending, "", "", Forward(message))
      [] OTHER -> Dispatch(pending, "", "", Forward(message))

process_client_message(message, pending) ==
    CASE message.type = "Request" ->
            IF message.method \in DOMAIN hooks
            THEN Dispatch(insert(pending, message.id, message.method),
                          hooks[message.method], "on_request", Forward(NoMessage))
            ELSE Dispatch(pending, "", "", Forward(message))
      [] message.type = "Notification" ->
            IF message.method \in DOMAIN hooks
            THEN Dispatch(pending, hooks[message.method], "on_notification",
                          Forward(NoMessage))
            ELSE Dispatch(pending, "", "", Forward(message))
      [] OTHER -> Dispatch(pending, "", "", Forward(message))

\* faulty variant: a response is correlated with the oldest pending request, not
\* with the one that carries its id
process_server_message_oldest(message, pending) ==
    CASE message.type = "Response" ->
            IF DOMAIN pending # {}
            THEN LET key == CHOOSE k \in DOMAIN pending :
                                \A j \in DOMAIN pending : k <= j
                 IN IF pending[key] \in DOMAIN hooks
                    THEN Dispatch(remove(pending, key), hooks[pending[key]],
                                  "on_response", Forward(NoMessage))
                    ELSE Dispatch(remove(pending, key), "", "", Forward(message))
            ELSE Dispatch(pending, "", "", Forward(message))
      [] message.type = "Notification" ->
            IF message.method \in DOMAIN hooks
            THEN Dispatch(pending, hooks[message.method], "on_notification",
                          Forward(NoMessage))
            ELSE Dispatch(pending, "", "", Forward(message))
      [] OTHER -> Dispatch(pending, "", "", Forward(message))

\* faulty variant: the entry is looked up and left in the table
process_server_message_keeps_entry(message, pending) ==
    CASE message.type = "Response" ->
            IF message.id \in DOMAIN pending /\ pending[message.id] \in DOMAIN hooks
            THEN Dispatch(pending, hooks[pending[message.id]], "on_response",
                          Forward(NoMessage))
            ELSE Dispatch(pending, "", "", Forward(message))
      [] message.type = "Notification" ->
            IF message.method \in DOMAIN hooks
            THEN Dispatch(pending, hooks[message.method], "on_notification",
                          Forward(NoMessage))
            ELSE Dispatch(pending, "", "", Forward(message))
      [] OTHER -> Dispatch(pending, "", "", Forward(message))

\* faulty variant: a request from the server is dispatched like one from the
\* client
process_server_message_hooks_requests(message, pending) ==
    CASE message.type = "Response" ->
            IF message.id \in DOMAIN pending /\ pending[message.id] \in DOMAIN hooks
            THEN Dispatch(remove(pending, message.id),
                          hooks[pending[message.id]], "on_response", Forward(NoMessage))
            ELSE Dispatch(remove(pending, message.id), "", "", Forward(message))
      [] message.type = "Notification" ->
            IF message.method \in DOMAIN hooks
            THEN Dispatch(pending, hooks[message.method], "on_notification",
                          Forward(NoMessage))
            ELSE Dispatch(pending, "", "", Forward(message))
      [] OTHER ->
            IF message.method \in DOMAIN hooks
            THEN Dispatch(insert(pending, message.id, message.method),
                          hooks[message.method], "on_request", Forward(NoMessage))
            ELSE Dispatch(pending, "", "", Forward(message))

process_server_message(message, pending) ==
    CASE message.type = "Response" ->
            IF message.id \in DOMAIN pending /\ pending[message.id] \in DOMAIN hooks
            THEN Dispatch(remove(pending, message.id),
                          hooks[pending[message.id]], "on_response", Forward(NoMessage))
            ELSE Dispatch(remove(pending, message.id), "", "", Forward(message))
      [] message.type = "Notification" ->
            IF message.method \in DOMAIN hooks
            THEN Dispatch(pending, hooks[message.method], "on_notification",
                          Forward(NoMessage))
            ELSE Dispatch(pending, "", "", Forward(message))
      [] OTHER -> Dispatch(pending, "", "", Forward(message))

\* what the process_*_message functions make of the hook's HookOutput
\* (proxy.rs:32-35, 42, 67-70, 78)
after_hook(op, output) ==
    IF op = "on_notification"
    THEN Forward(output.message)
    ELSE WithMessages(output.message, output.generated_messages)

----------------------------------------------------------------------------
(* What the peers send, and what the hooks of the session do *)

Req(id, method) == JObject(TRUE, JInt(id), JStr(method), JInt(1), JAbsent, JAbsent)
Resp(id) == JObject(TRUE, JInt(id), JAbsent, JAbsent, JInt(1), JAbsent)
Notif(method) == JObject(TRUE, JAbsent, JStr(method), JInt(1), JAbsent, JAbsent)
\* an object with an id, a method and a result: no message shape
BadShape == JObject(TRUE, JInt(1), JStr("foo"), JAbsent, JInt(1), JAbsent)

\* a well-framed message
Frame(v) == <<Tok("cl"), Tok("blank"), Body(v)>>
\* the same with a header line the codec ignores
FrameWithHeader(v) == <<Tok("hdr"), Tok("cl"), Tok("blank"), Body(v)>>

\* the stream closes inside a frame
ClosedMidFrame ==
    { <<Tok("partial")>>,
      <<Tok("cl"), Tok("partial")>>,
      <<Tok("cl"), Tok("blank")>>,
      <<Tok("cl"), Tok("blank"), Tok("short")>> }
\* a complete frame that violates the framing, or a failing reader
BrokenFrames ==
    { <<Tok("hdr"), Tok("blank")>>,
      <<Tok("cl"), Tok("clbad"), Tok("blank")>>,
      <<Tok("cl"), Tok("blank"), Tok("badjson")>>,
      <<Tok("ioerr")>>,
      <<Tok("cl"), Tok("blank"), Tok("ioerr")>> }

\* one session's input: the bytes of the two peers up to where their streams
\* close, and the list the session's hooks inject
Session(client, server, generated) ==
    [client |-> client, server |-> server, generated |-> generated]

Sessions ==
    {
      \* two hooked requests with distinct ids, their responses in both orders
      Session(Frame(Req(1, "foo")) \o Frame(Req(2, "bar")),
              Frame(Resp(1)) \o Frame(Resp(2)), <<>>),
      Session(Frame(Req(1, "foo")) \o Frame(Req(2, "bar")),
              Frame(Resp(2)) \o Frame(Resp(1)), <<>>),
      \* hooks that inject messages
      Session(Frame(Req(1, "foo")), Frame(Resp(1)), ToServerTwice),
      Session(Frame(Req(1, "foo")), Frame(Resp(1)), ToBoth),
      Session(Frame(Req(1, "foo")), Frame(Resp(1)), ToClientTwice),
      Session(Frame(Req(1, "foo")) \o Frame(Req(2, "baz")), <<>>, ToServerTwice),
      Session(Frame(Req(1, "foo")) \o Frame(Req(2, "bar")), Frame(Resp(1)),
              ToServerTwice),
      Session(Frame(Notif("foo")), Frame(Notif("foo")), ToBoth),
      \* methods without a hook, and the messages no dispatch looks at
      Session(Frame(Req(2, "baz")) \o FrameWithHeader(Notif("baz")),
              Frame(Notif("baz")) \o Frame(Req(1, "foo")), ToBoth),
      Session(Frame(Req(1, "foo")) \o Frame(Resp(1)), Frame(Resp(2)), <<>>),
      \* a body that is no message
      Session(Frame(BadShape) \o Frame(Req(2, "baz")),
              Frame(BadShape) \o Frame(Resp(1)), <<>>),
      \* one hooked request answered twice
      Session(Frame(Req(1, "foo")), Frame(Resp(1)) \o Frame(Resp(1)), ToClientTwice),
      \* one id used twice
      Session(Frame(Req(1, "foo")) \o Frame(Req(1, "bar")),
              Frame(Resp(1)) \o Frame(Resp(1)), <<>>),
      \* three messages in a row
      Session(Frame(Req(1, "foo")) \o Frame(Req(2, "bar")) \o Frame(Req(2, "baz")),
              Frame(Resp(2)), <<>>),
      Session(Frame(Notif("baz")),
              Frame(Resp(1)) \o Frame(Notif("foo")) \o Frame(Notif("baz")), ToBoth)
    }
    \* a peer that falls silent without closing its stream
    \cup {Session(Frame(Notif("baz")) \o Frame(Notif("baz")), <<Tok("idle")>>, <<>>),
          Session(<<Tok("idle")>>, Frame(Notif("baz")) \o Frame(Notif("baz")), <<>>)}
    \* streams that end inside a frame or break the framing
    \cup {Session(Frame(Notif("baz")) \o t, <<>>, <<>>) :
            t \in ClosedMidFrame \cup BrokenFrames}
    \cup {Session(<<>>, Frame(Notif("baz")) \o t, <<>>) :
            t \in ClosedMidFrame \cup BrokenFrames}

\* the number of well-framed bodies of a stream
RECURSIVE FrameCount(_)
FrameCount(tokens) ==
    IF tokens = <<>> THEN 0
    ELSE (IF Head(tokens).t = "body" THEN 1 ELSE 0) + FrameCount(Tail(tokens))

\* a stream of n copies of a frame
RECURSIVE Repeat(_, _)
Repeat(tokens, n) == IF n = 0 THEN <<>> ELSE tokens \o Repeat(tokens, n - 1)

\* a client that sends one message more than the server-bound channel
\* holds, and then closes; the server sends nothing and closes
Flood == Session(Repeat(Frame(Notif("baz")), QueueCapacity + 1), <<>>, <<>>)

----------------------------------------------------------------------------
(* State *)

VARIABLES
    session,            \* the input of this session (never changes)
    reader,             \* client_reader, server_reader: what is left to read
    pc,                 \* where each read loop stands
    cur,                \* the loop iteration each read loop is in
    nread,              \* how many well-framed messages each read loop decoded
    closedAt,           \* where in a frame the loop's stream was seen to close
    exit,               \* what each read loop returned
    pending_requests,   \* Proxy::pending_requests
    queue,              \* the two mpsc channels
    writer,             \* the two writer tasks
    enqLog,             \* per channel, every message sent on it, in order
    written,            \* per channel, every message its writer wrote, in order
    forward,            \* Proxy::forward: running, or returned with a result
    codec               \* a value on its way through from_value and to_value

vars == <<session, reader, pc, cur, nread, closedAt, exit, pending_requests,
          queue, writer, enqLog, written, forward, codec>>

\* the queue a read loop's main message goes to (proxy.rs:218, 272)
Opposite(l) == IF l = "client_to_server" THEN "server" ELSE "client"

\* faulty variant: the two arms of the match are exchanged
QueueOf_exchanged(direction) == IF direction = "ToClient" THEN "server" ELSE "client"

\* match direction (proxy.rs:226-229, 280-283)
QueueOf(direction) == IF direction = "ToClient" THEN "client" ELSE "server"

process_message(l, message, pending) ==
    IF l = "client_to_server"
    THEN process_client_message(message, pending)
    ELSE process_server_message(message, pending)

\* no conversion under way outside the read and writer loops
CodecIdle ==
    [origin |-> "none", stage |-> "idle", input |-> NoMessage, value |-> JNotObject,
     ok |-> FALSE, message |-> NoMessage, again |-> JNotObject]

Idle ==
    [n |-> 0, message |-> NoMessage, hook |-> "", op |-> "",
     hook_message |-> NoMessage, hook_generated |-> <<>>,
     main_message |-> NoMessage,
     generated_messages |-> <<>>, i |-> 0, status |-> "idle"]

Init ==
    /\ session \in {s \in Sessions : /\ FrameCount(s.client) <= MaxFrames
                                     /\ FrameCount(s.server) <= MaxFrames}
    /\ reader = [l \in Loops |->
                    IF l = "client_to_server" THEN session.client ELSE session.server]
    /\ pc = [l \in Loops |-> "read"]
    /\ cur = [l \in Loops |-> Idle]
    /\ nread = [l \in Loops |-> 0]
    /\ closedAt = [l \in Loops |-> "open"]
    /\ exit = [l \in Loops |-> "running"]
    /\ pending_requests = EmptyMap
    /\ queue = [q \in Queues |-> <<>>]
    /\ writer = [q \in Queues |-> "running"]
    /\ enqLog = [q \in Queues |-> <<>>]
    /\ written = [q \in Queues |-> <<>>]
    /\ forward = [state |-> "running", result |-> ""]
    /\ codec = CodecIdle

\* the same, with the session that fills a channel among the inputs
FloodInit ==
    /\ session \in {s \in Sessions : /\ FrameCount(s.client) <= MaxFrames
                                     /\ FrameCount(s.server) <= MaxFrames}
                   \cup {Flood}
    /\ reader = [l \in Loops |->
                    IF l = "client_to_server" THEN session.client ELSE session.server]
    /\ pc = [l \in Loops |-> "read"]
    /\ cur = [l \in Loops |-> Idle]
    /\ nread = [l \in Loops |-> 0]
    /\ closedAt = [l \in Loops |-> "open"]
    /\ exit = [l \in Loops |-> "running"]
    /\ pending_requests = EmptyMap
    /\ queue = [q \in Queues |-> <<>>]
    /\ writer = [q \in Queues |-> "running"]
    /\ enqLog = [q \in Queues |-> <<>>]
    /\ written = [q \in Queues |-> <<>>]
    /\ forward = [state |-> "running", result |-> ""]
    /\ codec = CodecIdle

----------------------------------------------------------------------------
(* The read loops forward_to_server and forward_to_client *)

\* faulty variant: a body that is no message ends the read loop with an error
skip_message_returns_error(l, c) ==
    /\ cur' = [cur EXCEPT ![l] = [c EXCEPT !.status = "skipped"]]
    /\ pc' = [pc EXCEPT ![l] = "done"]
    /\ exit' = [exit EXCEPT ![l] = "InvalidData"]

\* from_value returned Err: `if let Ok(message) = message` does not match,
\* and the loop turns to the next message (proxy.rs:213, 243, 267, 297)
skip_message(l, c) ==
    /\ cur' = [cur EXCEPT ![l] = [c EXCEPT !.status = "skipped"]]
    /\ pc' = pc
    /\ exit' = exit

\* read_message returned Ok: from_value, then process_*_message up to the
\* hook's await (proxy.rs:205-214, 259-268)
ReadMessage(l) ==
    /\ pc[l] = "read"
    /\ LET r == read_message(reader[l])
           m == from_value(r.value)
           d == process_message(l, m.msg, pending_requests)
           parts == into_parts(d.processed)
           c == [Idle EXCEPT !.n = nread[l] + 1, !.message = m.msg]
       IN /\ r.kind = "Ok"
          /\ reader' = [reader EXCEPT ![l] = r.rest]
          /\ nread' = [nread EXCEPT ![l] = @ + 1]
          /\ IF ~m.ok
             THEN /\ skip_message(l, c)
                  /\ UNCHANGED pending_requests
             ELSE /\ pending_requests' = d.pending
                  /\ IF d.hook # ""
                     THEN /\ cur' = [cur EXCEPT ![l] =
                                [c EXCEPT !.hook = d.hook, !.op = d.op,
                                          !.status = "hook"]]
                          /\ pc' = [pc EXCEPT ![l] = "hook"]
                          /\ exit' = exit
                     ELSE /\ cur' = [cur EXCEPT ![l] =
                                [c EXCEPT !.main_message = parts.main_message,
                                          !.generated_messages = parts.generated_messages,
                                          !.status = "sending"]]
                          /\ pc' = [pc EXCEPT ![l] = "send_main"]
                          /\ exit' = exit
    /\ UNCHANGED <<codec, session, closedAt, queue, writer, enqLog, written, forward>>

\* faulty variant: end of stream is returned like any other read error
ReadEof_returns_error(l) ==
    /\ pc[l] = "read"
    /\ read_message(reader[l]).kind = "UnexpectedEof"
    /\ closedAt' = [closedAt EXCEPT ![l] =
            IF reader[l] = <<>> THEN "boundary" ELSE "midframe"]
    /\ reader' = [reader EXCEPT ![l] = <<>>]
    /\ cur' = [cur EXCEPT ![l] = Idle]
    /\ pc' = [pc EXCEPT ![l] = "done"]
    /\ exit' = [exit EXCEPT ![l] = "UnexpectedEof"]
    /\ UNCHANGED <<codec, session, nread, pending_requests, queue, writer, enqLog,
                   written, forward>>

\* read_message returned Err(UnexpectedEof): break, then Ok(())
\* (proxy.rs:207-209, 246)
ReadEof(l) ==
    /\ pc[l] = "read"
    /\ read_message(reader[l]).kind = "UnexpectedEof"
    /\ closedAt' = [closedAt EXCEPT ![l] =
            IF reader[l] = <<>> THEN "boundary" ELSE "midframe"]
    /\ reader' = [reader EXCEPT ![l] = <<>>]
    /\ cur' = [cur EXCEPT ![l] = Idle]
    /\ pc' = [pc EXCEPT ![l] = "done"]
    /\ exit' = [exit EXCEPT ![l] = "Ok"]
    /\ UNCHANGED <<codec, session, nread, pending_requests, queue, writer, enqLog,
                   written, forward>>

\* read_message returned another error: return Err(e) (proxy.rs:210)
ReadFail(l) ==
    /\ pc[l] = "read"
    /\ read_message(reader[l]).kind \notin {"Ok", "UnexpectedEof", "Pending"}
    /\ exit' = [exit EXCEPT ![l] = read_message(reader[l]).kind]
    /\ reader' = [reader EXCEPT ![l] = <<>>]
    /\ cur' = [cur EXCEPT ![l] = Idle]
    /\ pc' = [pc EXCEPT ![l] = "done"]
    /\ UNCHANGED <<codec, session, nread, closedAt, pending_requests, queue, writer,
                   enqLog, written, forward>>

\* faulty variant: the hook's error is returned from the read loop
hook_error_returned(l) ==
    /\ cur' = [cur EXCEPT ![l] = [@ EXCEPT !.status = "hook_error"]]
    /\ pc' = [pc EXCEPT ![l] = "done"]
    /\ exit' = [exit EXCEPT ![l] = "Other"]
    /\ pending_requests' = pending_requests

\* faulty variant: a failed on_request takes the request's entry back out
\* of the table
hook_error_rolls_back(l) ==
    /\ cur' = [cur EXCEPT ![l] = [@ EXCEPT !.status = "hook_error"]]
    /\ pc' = [pc EXCEPT ![l] = "read"]
    /\ exit' = exit
    /\ pending_requests' =
            IF cur[l].op = "on_request"
            THEN remove(pending_requests, cur[l].message.id)
            ELSE pending_requests

\* Err(e) => eprintln!(..): the loop turns to the next message, and the
\* table keeps what process_client_message recorded
\* (proxy.rs:31, 239-241, 293-295)
hook_error(l) ==
    /\ cur' = [cur EXCEPT ![l] = [@ EXCEPT !.status = "hook_error"]]
    /\ pc' = [pc EXCEPT ![l] = "read"]
    /\ exit' = exit
    /\ pending_requests' = pending_requests

\* the hook's future completes: the rest of process_*_message, then
\* into_parts, or the Err arm (proxy.rs:31-35, 66-70, 214-216, 239-241)
HookReturn(l) ==
    /\ pc[l] = "hook"
    /\ \E r \in HookResults(cur[l].message, session.generated) :
         IF r.ok
         THEN LET parts == into_parts(after_hook(cur[l].op, r.output))
              IN /\ cur' = [cur EXCEPT ![l] =
                       [@ EXCEPT !.hook_message = r.output.message,
                                 !.hook_generated = r.output.generated_messages,
                                 !.main_message = parts.main_message,
                                 !.generated_messages = parts.generated_messages,
                                 !.status = "sending"]]
                 /\ pc' = [pc EXCEPT ![l] = "send_main"]
                 /\ exit' = exit
                 /\ pending_requests' = pending_requests
         ELSE hook_error(l)
    /\ UNCHANGED <<codec, session, reader, nread, closedAt, queue,
                   writer, enqLog, written, forward>>

\* an entry of a channel: the message, and which send of which iteration of
\* which read loop put it there (k = 0 for the main message)
Entry(l, k, message) == [msg |-> message, loop |-> l, n |-> cur[l].n, k |-> k]

\* faulty variant: the channel takes a message whatever it holds
Send_unbounded(l, q, k, message, next, status) ==
    IF writer[q] = "exited"
    THEN /\ pc' = [pc EXCEPT ![l] = "done"]
         /\ exit' = [exit EXCEPT ![l] = "BrokenPipe"]
         /\ cur' = [cur EXCEPT ![l] = [@ EXCEPT !.status = "broken"]]
         /\ UNCHANGED <<queue, enqLog>>
    ELSE /\ queue' = [queue EXCEPT ![q] = Append(@, Entry(l, k, message))]
         /\ enqLog' = [enqLog EXCEPT ![q] = Append(@, Entry(l, k, message))]
         /\ pc' = [pc EXCEPT ![l] = next]
         /\ cur' = [cur EXCEPT ![l] = [@ EXCEPT !.i = k + 1, !.status = status]]
         /\ UNCHANGED exit

\* Sender::send(message).await on channel q by read loop l: an error when the
\* receiver is gone, a wait while the channel is full
Send(l, q, k, message, next, status) ==
    IF writer[q] = "exited"
    THEN /\ pc' = [pc EXCEPT ![l] = "done"]
         /\ exit' = [exit EXCEPT ![l] = "BrokenPipe"]
         /\ cur' = [cur EXCEPT ![l] = [@ EXCEPT !.status = "broken"]]
         /\ UNCHANGED <<queue, enqLog>>
    ELSE /\ Len(queue[q]) < QueueCapacity
         /\ queue' = [queue EXCEPT ![q] = Append(@, Entry(l, k, message))]
         /\ enqLog' = [enqLog EXCEPT ![q] = Append(@, Entry(l, k, message))]
         /\ pc' = [pc EXCEPT ![l] = next]
         /\ cur' = [cur EXCEPT ![l] = [@ EXCEPT !.i = k + 1, !.status = status]]
         /\ UNCHANGED exit

\* server_message_sender.send(main_message) (proxy.rs:218-223, 272-277)
SendMain(l) ==
    /\ pc[l] = "send_main"
    /\ IF cur[l].generated_messages = <<>>
       THEN Send(l, Opposite(l), 0, cur[l].main_message, "read", "forwarded")
       ELSE Send(l, Opposite(l), 0, cur[l].main_message, "send_generated", "sending")
    /\ UNCHANGED <<codec, session, reader, nread, closedAt, pending_requests, writer,
                   written, forward>>

\* one turn of the loop over generated_messages (proxy.rs:225-237, 279-291)
SendGenerated(l) ==
    /\ pc[l] = "send_generated"
    /\ LET g == cur[l].generated_messages[cur[l].i]
       IN IF cur[l].i = Len(cur[l].generated_messages)
          THEN Send(l, QueueOf(g.direction), cur[l].i, g.message, "read", "forwarded")
          ELSE Send(l, QueueOf(g.direction), cur[l].i, g.message, "send_generated",
                    "sending")
    /\ UNCHANGED <<codec, session, reader, nread, closedAt, pending_requests, writer,
                   written, forward>>

----------------------------------------------------------------------------
(* The writer loops write_to_server and write_to_client (proxy.rs:123-141) *)

\* faulty variant: the writer is handed the newest message of the channel
recv_newest(q) == queue[q][Len(queue[q])]

\* Receiver::recv on a channel that holds a message: the oldest one
\* (proxy.rs:125, 135)
recv(q) == Head(queue[q])

\* recv() yields the oldest message and write_message succeeds
WriteMessage(q) ==
    /\ writer[q] = "running"
    /\ queue[q] # <<>>
    /\ written' = [written EXCEPT ![q] =
            Append(@, [recv(q) EXCEPT !.msg = to_value(@)])]
    /\ queue' = [queue EXCEPT ![q] = Tail(@)]
    /\ UNCHANGED <<codec, session, reader, pc, cur, nread, closedAt, exit,
                   pending_requests, writer, enqLog, forward>>

\* recv() yields a message and write_message fails: break; the task ends and
\* drops the receiver with whatever the channel still holds
WriteFail(q) ==
    /\ writer[q] = "running"
    /\ queue[q] # <<>>
    /\ writer' = [writer EXCEPT ![q] = "exited"]
    /\ queue' = [queue EXCEPT ![q] = <<>>]
    /\ UNCHANGED <<codec, session, reader, pc, cur, nread, closedAt, exit,
                   pending_requests, enqLog, written, forward>>

\* recv() yields None: the channel is empty and both read loops, which own
\* its senders, have returned
WriterEnd(q) ==
    /\ writer[q] = "running"
    /\ queue[q] = <<>>
    /\ \A l \in Loops : pc[l] = "done"
    /\ writer' = [writer EXCEPT ![q] = "exited"]
    /\ UNCHANGED <<codec, session, reader, pc, cur, nread, closedAt, exit,
                   pending_requests, queue, enqLog, written, forward>>

----------------------------------------------------------------------------
(* Proxy::forward after the spawns: join! of the two read loops, then      *)
(* Ok(()) (proxy.rs:143-147)                                               *)

\* faulty variant: the four tasks are joined, the writer loops too
Join_all_tasks ==
    /\ forward.state = "running"
    /\ \A l \in Loops : pc[l] = "done"
    /\ \A q \in Queues : writer[q] = "exited"
    /\ forward' = [state |-> "returned", result |-> "Ok"]
    /\ UNCHANGED <<codec, session, reader, pc, cur, nread, closedAt, exit,
                   pending_requests, queue, writer, enqLog, written>>

Join ==
    /\ forward.state = "running"
    /\ \A l \in Loops : pc[l] = "done"
    /\ forward' = [state |-> "returned", result |-> "Ok"]
    /\ UNCHANGED <<codec, session, reader, pc, cur, nread, closedAt, exit,
                   pending_requests, queue, writer, enqLog, written>>

Next ==
    \/ \E l \in Loops : ReadMessage(l)
    \/ \E l \in Loops : ReadEof(l)
    \/ \E l \in Loops : ReadFail(l)
    \/ \E l \in Loops : HookReturn(l)
    \/ \E l \in Loops : SendMain(l)
    \/ \E l \in Loops : SendGenerated(l)
    \/ \E q \in Queues : WriteMessage(q)
    \/ \E q \in Queues : WriteFail(q)
    \/ \E q \in Queues : WriterEnd(q)
    \/ Join

Spec == Init /\ [][Next]_vars

\* The tokio runtime runs every spawned task again and again, a hook's
\* future completes, and forward's join! is polled when a read loop ends.
FairSpec ==
    /\ Spec
    /\ \A l \in Loops :
         WF_vars(ReadMessage(l) \/ ReadEof(l) \/ ReadFail(l) \/ HookReturn(l)
                 \/ SendMain(l) \/ SendGenerated(l))
    /\ \A q \in Queues : WF_vars(WriteMessage(q) \/ WriterEnd(q))
    /\ WF_vars(Join)

\* the same program on the inputs of FloodInit
FloodSpec == FloodInit /\ [][Next]_vars

----------------------------------------------------------------------------
(* Message::from_value and Message::to_value on their own: a JSON object   *)
(* is decoded and the message encoded again, or a Message a hook built is  *)
(* encoded, decoded and encoded again.                                     *)

\* the JSON objects decoded: every combination of the five fields
JsonInputs ==
    {JObject(TRUE, id, method, params, result, error) :
        id \in {JAbsent, JInt(1), JInt(2), JStr("a")},
        method \in {JAbsent, JStr("foo"), JStr("bar")},
        params \in {JAbsent, JInt(1)},
        result \in {JAbsent, JInt(1), JNull},
        error \in {JAbsent, JInt(1)}}

\* the values of enum Message encoded: the fields of type Option<Value> are
\* None or Some
MessageInputs ==
    {Request(id, method, params) :
        id \in Ids, method \in Methods, params \in {JAbsent, JInt(1)}}
    \cup {Notification(method, params) :
        method \in Methods, params \in {JAbsent, JInt(1)}}
    \cup {Response(id, result, error) :
        id \in Ids, result \in {JAbsent, JInt(1), JNull}, error \in {JAbsent, JInt(1)}}

CodecInit ==
    /\ codec \in {[CodecIdle EXCEPT !.origin = "value", !.stage = "value",
                                    !.value = v] : v \in JsonInputs}
               \cup {[CodecIdle EXCEPT !.origin = "message", !.stage = "message",
                                       !.input = m] : m \in MessageInputs}
    /\ session = Session(<<>>, <<>>, <<>>)
    /\ reader = [l \in Loops |-> <<>>]
    /\ pc = [l \in Loops |-> "read"]
    /\ cur = [l \in Loops |-> Idle]
    /\ nread = [l \in Loops |-> 0]
    /\ closedAt = [l \in Loops |-> "open"]
    /\ exit = [l \in Loops |-> "running"]
    /\ pending_requests = EmptyMap
    /\ queue = [q \in Queues |-> <<>>]
    /\ writer = [q \in Queues |-> "running"]
    /\ enqLog = [q \in Queues |-> <<>>]
    /\ written = [q \in Queues |-> <<>>]
    /\ forward = [state |-> "running", result |-> ""]

\* msg.to_value() of the message given
Encode ==
    /\ codec.stage = "message"
    /\ codec' = [codec EXCEPT !.stage = "value", !.value = to_value(codec.input)]
    /\ UNCHANGED <<session, reader, pc, cur, nread, closedAt, exit,
                   pending_requests, queue, writer, enqLog, written, forward>>

\* Message::from_value(value)
Decode ==
    /\ codec.stage = "value"
    /\ codec' = [codec EXCEPT !.stage = "decoded",
                              !.ok = from_value(codec.value).ok,
                              !.message = from_value(codec.value).msg]
    /\ UNCHANGED <<session, reader, pc, cur, nread, closedAt, exit,
                   pending_requests, queue, writer, enqLog, written, forward>>

\* msg.to_value() of the message from_value returned
EncodeAgain ==
    /\ codec.stage = "decoded"
    /\ codec.ok
    /\ codec' = [codec EXCEPT !.stage = "encoded", !.again = to_value(codec.message)]
    /\ UNCHANGED <<session, reader, pc, cur, nread, closedAt, exit,
                   pending_requests, queue, writer, enqLog, written, forward>>

CodecNext == Encode \/ Decode \/ EncodeAgain

CodecSpec == CodecInit /\ [][CodecNext]_vars

----------------------------------------------------------------------------
(* Reading the state *)

Client == "client_to_server"
Server == "server_to_client"

\* the JSON bodies of a stream, in order
RECURSIVE Bodies(_)
Bodies(tokens) ==
    IF tokens = <<>> THEN <<>>
    ELSE (IF Head(tokens).t = "body" THEN <<Head(tokens).value>> ELSE <<>>)
         \o Bodies(Tail(tokens))

StreamOf(l) == IF l = Client THEN session.client ELSE session.server

\* the k-th body of loop l's stream, decoded
Decoded(l, k) ==
    IF k \in 1..Len(Bodies(StreamOf(l)))
    THEN from_value(Bodies(StreamOf(l))[k])
    ELSE [ok |-> FALSE, msg |-> NoMessage]

\* the entries that iteration n of read loop l put on channel q, in order
EntriesOf(l, n, q) ==
    LET Mine(e) == e.loop = l /\ e.n = n
    IN SelectSeq(enqLog[q], Mine)

\* the send indices (0 for the main message, i for the i-th generated one)
\* that iteration n of read loop l has put on any channel
SentIndices(l, n) ==
    UNION {{EntriesOf(l, n, q)[p].k : p \in 1..Len(EntriesOf(l, n, q))} :
             q \in Queues}

\* a sequence in which the k field strictly grows
Ascending(es) == \A p1, p2 \in 1..Len(es) : p1 < p2 => es[p1].k < es[p2].k

\* the queue a Direction names
Named(direction) == IF direction = "ToClient" THEN "client" ELSE "server"
\* the queue of the side a read loop does not read from
Across(l) == IF l = Client THEN "server" ELSE "client"

\* the sends an outcome (main message, additional messages) asks read loop l
\* for, in order: where[k+1] and what[k+1] for send index k
PlanQueues(l, generated) ==
    <<Across(l)>> \o [i \in 1..Len(generated) |-> Named(generated[i].direction)]
PlanMessages(main, generated) ==
    <<main>> \o [i \in 1..Len(generated) |-> generated[i].message]

\* iteration cur[l] of read loop l has enqueued a prefix of the plan, each
\* message once, on the planned queue and no other, and all of it if `whole`
EnqueuedAsPlanned(l, main, generated, whole) ==
    LET where == PlanQueues(l, generated)
        what == PlanMessages(main, generated)
        K == SentIndices(l, cur[l].n)
    IN /\ \E j \in 0..Len(where) : K = 0..(j - 1)
       /\ whole => K = 0..(Len(where) - 1)
       /\ \A q \in Queues :
            LET es == EntriesOf(l, cur[l].n, q)
            IN /\ Ascending(es)
               /\ \A p \in 1..Len(es) :
                    /\ es[p].k + 1 \in 1..Len(where)
                    /\ where[es[p].k + 1] = q
                    /\ what[es[p].k + 1] = es[p].msg

\* a step of read loop l that decodes one more well-framed body
Decodes(l) == pc[l] = "read" /\ nread'[l] = nread[l] + 1
\* the message that step decodes
Incoming(l) == from_value(read_message(reader[l]).value)

Unhooked(message) ==
    /\ message.type \in {"Request", "Notification"}
    /\ message.method \notin DOMAIN hooks

----------------------------------------------------------------------------
(* C1 *)

\* C1: Proxy::forward returns success only when both read loops ended via
\* clean end-of-stream; when a read loop ended on a fatal path (framing error,
\* I/O error, BrokenPipe of a closed queue) forward returns an error.
C1_ForwardReturnsLoopError ==
    forward.state = "returned" =>
        (forward.result = "Ok" <=> \A l \in Loops : exit[l] = "Ok")

----------------------------------------------------------------------------
(* C2 *)

\* the requests with a hooked method among the first `upto` bodies of the
\* client's stream
HookedRequests(upto) ==
    {Decoded(Client, k).msg : k \in 1..upto} \cap
    {Request(i, m, JInt(1)) : i \in Ids, m \in DOMAIN hooks}

DistinctIds ==
    LET bodies == Bodies(session.client)
    IN \A k1, k2 \in 1..Len(bodies) :
         (/\ k1 # k2
          /\ Decoded(Client, k1).msg.type = "Request"
          /\ Decoded(Client, k2).msg.type = "Request")
         => Decoded(Client, k1).msg.id # Decoded(Client, k2).msg.id

\* the server's response arrives after the request with its id was dispatched
\* and before any other response with that id
C2_Dispatch ==
    (/\ Decodes(Server)
     /\ DistinctIds
     /\ Incoming(Server).msg.type = "Response"
     /\ \A k \in 1..nread[Server] :
          ~(Decoded(Server, k).msg.type = "Response"
            /\ Decoded(Server, k).msg.id = Incoming(Server).msg.id))
    => \A r \in HookedRequests(nread[Client]) :
         r.id = Incoming(Server).msg.id
         => /\ pc'[Server] = "hook"
            /\ cur'[Server].op = "on_response"
            /\ cur'[Server].hook = hooks[r.method]

\* C2: with pairwise distinct request ids, under every interleaving of the
\* two read loops, a response that follows its request has on_response
\* invoked on the hook registered for the method of the request with its id,
\* and on_response is never invoked on the hook of another request's method.
C2_ResponseDispatchedToOwnHook ==
    /\ [][C2_Dispatch]_vars
    /\ [](DistinctIds /\ cur[Server].op = "on_response"
          => \E r \in HookedRequests(nread[Client]) :
                /\ r.id = cur[Server].message.id
                /\ cur[Server].hook = hooks[r.method])

\* both responses were dispatched, the one of the second request first, and
\* the second one reached the hook of the first request's method
C2_Witness ==
    /\ DistinctIds
    /\ Cardinality(HookedRequests(nread[Client])) = 2
    /\ cur[Server].n = 2
    /\ cur[Server].op = "on_response"
    /\ cur[Server].message.id = 1
    /\ cur[Server].hook = "FooHook"
    /\ Decoded(Server, 1).msg.id = 2

----------------------------------------------------------------------------
(* C3 *)

C3_Dispatch ==
    \A l \in Loops :
      (Decodes(l) /\ Incoming(l).ok /\ Unhooked(Incoming(l).msg))
      => /\ pending_requests' = pending_requests
         /\ pc'[l] = "send_main"
         /\ cur'[l].hook = ""
         /\ cur'[l].main_message = Incoming(l).msg
         /\ cur'[l].generated_messages = <<>>

\* C3: a request or notification whose method has no registered hook is
\* enqueued unchanged on the queue of the opposite side and on no other, no
\* hook is invoked and the correlation table is left unchanged.  (The send
\* is what enqueues: until it has happened, and when it finds the queue
\* closed, nothing of the message is on any queue.)
C3_UnhookedPassesThrough ==
    /\ [][C3_Dispatch]_vars
    /\ [](\A l \in Loops :
            Unhooked(cur[l].message)
            => /\ cur[l].hook = ""
               /\ pc[l] # "hook"
               /\ EnqueuedAsPlanned(l, cur[l].message, <<>>,
                                    cur[l].status = "forwarded")
               /\ cur[l].status \in {"sending", "forwarded", "broken"})

\* an unhooked request went through while the table held an entry
C3_Witness ==
    /\ cur[Client].message = Request(2, "baz", JInt(1))
    /\ cur[Client].status = "forwarded"
    /\ enqLog["server"][Len(enqLog["server"])].msg = Request(2, "baz", JInt(1))
    /\ DOMAIN pending_requests = {1}

----------------------------------------------------------------------------
(* C4 *)

\* a hooked dispatch has run to its end with no main message enqueued and
\* its generated messages enqueued
DropObserved ==
    \E l \in Loops :
      /\ cur[l].hook # ""
      /\ cur[l].hook_generated # <<>>
      /\ pc[l] = "read"
      /\ 0 \notin SentIndices(l, cur[l].n)
      /\ SentIndices(l, cur[l].n) # {}

\* C4: a hook can return an outcome with no primary message; the original
\* message is then on neither queue while the outcome's additional messages
\* are enqueued: in a session whose hooks inject messages and whose client
\* sends a hooked request, such a dispatch is eventually seen.
C4_HookCanDropPrimary ==
    (session.generated # <<>> /\ HookedRequests(1) # {}) => <>DropObserved

\* what the code does instead: whatever a hook's outcome has enqueued, its
\* main message was enqueued first
C4_MainMessageAlwaysFirst ==
    \A l \in Loops :
      cur[l].hook # "" /\ SentIndices(l, cur[l].n) # {}
      => 0 \in SentIndices(l, cur[l].n)

----------------------------------------------------------------------------
(* C5 *)

\* C5: for a hooked request or response whose hook returned the primary
\* message M and the additional messages (d1,A1),...,(dk,Ak), the read loop
\* enqueues M first on the queue of the opposite side and then each Ai once,
\* in index order, on the queue named by di and on no other queue.  (What is
\* enqueued is at every moment a prefix of M, A1, ..., Ak, and all of it
\* when the dispatch is over; a send that finds its queue closed ends it.)
C5_OutcomeEnqueuedInOrder ==
    \A l \in Loops :
      (/\ cur[l].op \in {"on_request", "on_response"}
       /\ cur[l].status \in {"sending", "forwarded", "broken"})
      => EnqueuedAsPlanned(l, cur[l].hook_message, cur[l].hook_generated,
                           cur[l].status = "forwarded")

\* the client's hooked request was dispatched with two additional messages
\* for the server, and the server-bound queue got M, A, B
C5_Witness ==
    /\ cur[Client].op = "on_request"
    /\ cur[Client].status = "forwarded"
    /\ cur[Client].hook_generated = ToServerTwice
    /\ Len(enqLog["server"]) = 3
    /\ enqLog["server"][1].msg = Rewrite(Request(1, "foo", JInt(1)))
    /\ enqLog["server"][2].msg = GenA
    /\ enqLog["server"][3].msg = GenB

----------------------------------------------------------------------------
(* C6 *)

\* C6: on a queue, the additional messages a hook produced for the direction
\* of the primary message follow that primary message immediately: no
\* message of another dispatch, of either read loop, sits between them.
C6_SameDirectionAdjacent ==
    \A q \in Queues :
      \A p1, p2 \in 1..Len(enqLog[q]) :
        (/\ p1 < p2
         /\ enqLog[q][p1].loop = enqLog[q][p2].loop
         /\ enqLog[q][p1].n = enqLog[q][p2].n
         /\ Across(enqLog[q][p1].loop) = q)
        => \A p \in p1..p2 :
             /\ enqLog[q][p].loop = enqLog[q][p1].loop
             /\ enqLog[q][p].n = enqLog[q][p1].n

----------------------------------------------------------------------------
(* C7 *)

\* C7: within one direction, main messages are forwarded in the order they
\* were decoded, and a writer loop writes the messages of its queue in queue
\* order, each at most once.
C7_ForwardedInDecodeOrder ==
    \A q \in Queues :
      /\ \A p1, p2 \in 1..Len(enqLog[q]) :
           (/\ p1 < p2
            /\ enqLog[q][p1].loop = enqLog[q][p2].loop
            /\ enqLog[q][p1].k = 0
            /\ enqLog[q][p2].k = 0)
           => enqLog[q][p1].n < enqLog[q][p2].n
      /\ Len(written[q]) <= Len(enqLog[q])
      /\ \A p \in 1..Len(written[q]) :
           written[q][p] = [enqLog[q][p] EXCEPT !.msg = to_value(@)]

\* two messages of the client, and a message injected in between, were
\* written to the server in the order of the queue
C7_Witness ==
    /\ Len(written["server"]) = 4
    /\ written["server"][1].n = 1 /\ written["server"][1].k = 0
    /\ written["server"][4].n = 2 /\ written["server"][4].k = 0
    /\ written["server"][4].msg = to_value(Request(2, "baz", JInt(1)))

----------------------------------------------------------------------------
(* C8 *)

\* C8: when a hook returns HookError::ProcessingFailed, neither the message
\* being dispatched nor any additional message is enqueued, and the read loop
\* goes on with the next message instead of ending with an error.
C8_HookErrorSkipsMessage ==
    /\ [][\A l \in Loops :
            (pc[l] = "hook" /\ cur'[l].status = "hook_error")
            => /\ pc'[l] = "read"
               /\ exit' = exit
               /\ queue' = queue
               /\ enqLog' = enqLog]_vars
    /\ [](\A l \in Loops :
            cur[l].status = "hook_error"
            => /\ pc[l] = "read"
               /\ exit[l] = "running"
               /\ SentIndices(l, cur[l].n) = {})

\* the hook failed on the client's first request, nothing of it was
\* enqueued, and the loop forwarded the second request
C8_Witness ==
    /\ Decoded(Client, 1).msg = Request(1, "foo", JInt(1))
    /\ cur[Client].n = 2
    /\ cur[Client].status = "forwarded"
    /\ SentIndices(Client, 1) = {}
    /\ SentIndices(Client, 2) = {0}

----------------------------------------------------------------------------
(* C9 *)

\* C9: a well-framed JSON body that is no message (Message::from_value
\* fails) is skipped: nothing is enqueued, the correlation table is
\* unchanged, and the read loop goes on to decode the next message.
C9_BadShapeSkipped ==
    [][\A l \in Loops :
         (Decodes(l) /\ ~Incoming(l).ok)
         => /\ pc'[l] = "read"
            /\ exit' = exit
            /\ pending_requests' = pending_requests
            /\ queue' = queue
            /\ enqLog' = enqLog]_vars

\* the server sent a body that is no message, then a response, and the
\* response was forwarded to the client
C9_Witness ==
    /\ Bodies(session.server) # <<>>
    /\ ~Decoded(Server, 1).ok
    /\ cur[Server].n = 2
    /\ cur[Server].status = "forwarded"
    /\ SentIndices(Server, 1) = {}
    /\ enqLog["client"] # <<>>
    /\ enqLog["client"][1].msg = Response(1, JInt(1), JAbsent)

----------------------------------------------------------------------------
(* C10 *)

\* C10: a stream that closes inside a frame makes the read loop end with an
\* error; only a close at a frame boundary is a clean end of stream.
C10_MidFrameCloseIsError ==
    \A l \in Loops : exit[l] = "Ok" => closedAt[l] = "boundary"

----------------------------------------------------------------------------
(* C11 *)

\* the queue the send that read loop l stands before goes to
Target(l) ==
    IF pc[l] = "send_main" THEN Across(l)
    ELSE Named(cur[l].generated_messages[cur[l].i].direction)

\* a writer loop leaves while its queue holds a message: its write failed
WriterFails(q) == writer[q] = "running" /\ writer'[q] = "exited" /\ queue[q] # <<>>

\* what the code does: a failed write ends that writer loop and nothing
\* else, and a send on its queue then ends the sending read loop with
\* BrokenPipe
C11_ClosedQueueFailsSender ==
    /\ [][\A q \in Queues :
            WriterFails(q)
            => /\ \A o \in Queues \ {q} : writer'[o] = writer[o]
               /\ pc' = pc /\ exit' = exit /\ cur' = cur
               /\ forward' = forward]_vars
    /\ [][\A l \in Loops :
            (/\ pc[l] \in {"send_main", "send_generated"}
             /\ writer[Target(l)] = "exited"
             /\ cur'[l] # cur[l])
            => /\ pc'[l] = "done"
               /\ exit'[l] = "BrokenPipe"
               /\ enqLog' = enqLog]_vars

\* C11: when a writer loop fails a write it alone exits, its queue is
\* closed, the next send of a read loop on that queue fails and ends that
\* read loop with BrokenPipe, and that ends the session: Proxy::forward
\* returns.
C11_WriteFailureEndsSession ==
    /\ C11_ClosedQueueFailsSender
    /\ \A l \in Loops : (exit[l] = "BrokenPipe") ~> (forward.state = "returned")

----------------------------------------------------------------------------
(* C12 *)

\* a stream of complete, well-formed frames that closes at a frame boundary
RECURSIVE CleanStream(_)
CleanStream(tokens) ==
    \/ tokens = <<>>
    \/ /\ read_message(tokens).kind = "Ok"
       /\ CleanStream(read_message(tokens).rest)

CleanClose == CleanStream(session.client) /\ CleanStream(session.server)

\* no write fails while a read loop may still send: a writer loop leaves
\* only when both read loops have returned
WritersProgress == \A q \in Queues : writer[q] = "exited" => \A l \in Loops : pc[l] = "done"

Finished == forward.state = "returned" /\ \A l \in Loops : exit[l] = "Ok"

----------------------------------------------------------------------------
(* C13 *)

\* C13: Proxy::forward has not returned while a read loop is running, and
\* once both read loops have returned it can return at once, whatever the
\* writer loops do and whatever the channels hold.
C13_ForwardReturnsWithReadLoops ==
    /\ forward.state = "returned" => \A l \in Loops : exit[l] # "running"
    /\ (forward.state = "running" /\ \A l \in Loops : exit[l] # "running")
       => ENABLED Join

\* forward has returned while a writer loop is still running with messages
\* in its channel
C13_Witness ==
    /\ forward.state = "returned"
    /\ \E q \in Queues : writer[q] = "running" /\ Len(queue[q]) = 2

----------------------------------------------------------------------------
(* C14 *)

\* C14: once Proxy::forward has returned, no writer loop writes a message
\* to a peer.
C14_NoWriteAfterReturn ==
    [][forward.state = "returned" => written' = written]_vars

----------------------------------------------------------------------------
(* C15 *)

\* a field holds a JSON value; an id, a number or a string
Present(j) == j.k # "absent"
ScalarId(j) == j.k \in {"int", "str"}

\* the variant the decision table names for an object, "" for a failure
TableVariant(value) ==
    LET has == Present(value.result) \/ Present(value.error)
    IN CASE ScalarId(value.id) /\ Present(value.method) /\ ~has -> "Request"
         [] ScalarId(value.id) /\ ~Present(value.method) /\ has -> "Response"
         [] ~Present(value.id) /\ Present(value.method) /\ ~has -> "Notification"
         [] OTHER -> ""

\* C15: Message::from_value classifies a JSON object by the presence of its
\* fields alone (an id being any number or string): it returns the variant
\* the decision table names, and fails for every other combination.
C15_ClassifiedByPresence ==
    (codec.origin = "value" /\ codec.stage = "decoded")
    => IF TableVariant(codec.value) = ""
       THEN ~codec.ok
       ELSE codec.ok /\ codec.message.type = TableVariant(codec.value)

\* what the code does: the same table with "id present" read as "id is an
\* integer that fits i64"
C15_ClassifiedWithIntegerId ==
    (codec.origin = "value" /\ codec.stage = "decoded")
    => LET value == [codec.value EXCEPT
                        !.id = IF @.k = "int" THEN @ ELSE JAbsent]
       IN IF TableVariant(value) = ""
          THEN ~codec.ok
          ELSE codec.ok /\ codec.message.type = TableVariant(value)

----------------------------------------------------------------------------
(* C16 *)

\* C16: for every Message m, a Response with any of result and error
\* present or absent included, from_value(to_value(m)) succeeds and
\* to_value(from_value(to_value(m))) = to_value(m).
C16_RoundTrip ==
    /\ (codec.origin = "message" /\ codec.stage = "decoded") => codec.ok
    /\ (codec.origin = "message" /\ codec.stage = "encoded")
       => codec.again = codec.value

\* what the code does: the round trip holds of every message but a Response
\* with neither result nor error, whose encoding from_value rejects
C16_RoundTripUnlessEmptyResponse ==
    LET empty == /\ codec.input.type = "Response"
                 /\ ~Present(codec.input.result)
                 /\ ~Present(codec.input.error)
    IN /\ (codec.origin = "message" /\ codec.stage = "decoded")
          => (codec.ok <=> ~empty)
       /\ (codec.origin = "message" /\ codec.stage = "encoded")
          => codec.again = codec.value

----------------------------------------------------------------------------
(* C17 *)

\* the table maps the id of the request the client loop is dispatching to
\* its method
Recorded(table) ==
    /\ cur[Client].message.id \in DOMAIN table
    /\ table[cur[Client].message.id] = cur[Client].message.method

\* the server loop has decoded a response with the id of that request
ResponseSeen ==
    \E k \in 1..nread[Server] :
      /\ Decoded(Server, k).msg.type = "Response"
      /\ Decoded(Server, k).msg.id = cur[Client].message.id

\* C17: for a client request whose method has a hook, the entry id -> method
\* is in the correlation table when on_request is invoked; while on_request
\* runs and after it has returned, the entry is there unless a response
\* with that id has taken it.
C17_RecordedBeforeHook ==
    /\ [][(Decodes(Client) /\ cur'[Client].op = "on_request")
          => /\ pc'[Client] = "hook"
             /\ cur'[Client].message.id \in DOMAIN pending_requests'
             /\ pending_requests'[cur'[Client].message.id]
                  = cur'[Client].message.method]_vars
    /\ [](cur[Client].op = "on_request"
          => Recorded(pending_requests) \/ ResponseSeen)

\* on_request is still running for request 1 and the server's response 1
\* is already with on_response: the entry was there for it to take
C17_Witness ==
    /\ pc[Client] = "hook"
    /\ cur[Client].op = "on_request"
    /\ cur[Client].message.id = 1
    /\ pc[Server] = "hook"
    /\ cur[Server].op = "on_response"
    /\ cur[Server].message.id = 1
    /\ 1 \notin DOMAIN pending_requests

----------------------------------------------------------------------------
(* C18 *)

C18_Dispatch ==
    (Decodes(Server) /\ Incoming(Server).ok /\ Incoming(Server).msg.type = "Response")
    => LET response == Incoming(Server).msg
       IN IF response.id \in DOMAIN pending_requests
          THEN /\ pc'[Server] = "hook"
               /\ cur'[Server].op = "on_response"
               /\ pending_requests' = remove(pending_requests, response.id)
               /\ response.id \notin DOMAIN pending_requests'
          ELSE /\ pc'[Server] = "send_main"
               /\ cur'[Server].hook = ""
               /\ cur'[Server].main_message = response
               /\ cur'[Server].generated_messages = <<>>
               /\ pending_requests' = pending_requests

\* C18: a server response has on_response invoked exactly when the
\* correlation table holds an entry for its id at its dispatch, and the
\* dispatch takes that entry away in the same step; a response whose id has
\* no entry goes to the client unchanged and leaves the table as it is.
\* With request ids used once, a response that had a hook invoked leaves no
\* entry for a later response with its id.
C18_ResponseCorrelatedOnce ==
    /\ [][C18_Dispatch]_vars
    /\ [](\A l \in {Server} :
            /\ (cur[l].message.type = "Response" /\ cur[l].hook = ""
                /\ cur[l].status \in {"sending", "forwarded", "broken"})
               => EnqueuedAsPlanned(l, cur[l].message, <<>>,
                                    cur[l].status = "forwarded")
            /\ (cur[l].op = "on_response" /\ DistinctIds)
               => cur[l].message.id \notin DOMAIN pending_requests)

\* one hooked request, two responses with its id: the first went through
\* the hook, which rewrote it, the second was forwarded as it came
C18_Witness ==
    /\ Cardinality(HookedRequests(nread[Client])) = 1
    /\ cur[Server].n = 2
    /\ cur[Server].hook = ""
    /\ cur[Server].status = "forwarded"
    /\ Len(EntriesOf(Server, 1, "client")) = 3
    /\ EntriesOf(Server, 1, "client")[1].msg = Rewrite(Response(1, JInt(1), JAbsent))
    /\ EntriesOf(Server, 2, "client") # <<>>
    /\ EntriesOf(Server, 2, "client")[1].msg = Response(1, JInt(1), JAbsent)
    /\ EntriesOf(Server, 2, "server") = <<>>

----------------------------------------------------------------------------
(* C19 *)

\* C19: for a notification with a hooked method, from either side,
\* on_notification is invoked and the additional messages of its outcome are
\* enqueued in the hook's order, each on the queue its Direction names,
\* after the primary message, as for requests and responses.
C19_NotificationOutcomeEnqueued ==
    \A l \in Loops :
      /\ (cur[l].message.type = "Notification"
          /\ cur[l].message.method \in DOMAIN hooks)
         => cur[l].op = "on_notification"
      /\ (/\ cur[l].op = "on_notification"
          /\ cur[l].status \in {"sending", "forwarded", "broken"})
         => EnqueuedAsPlanned(l, cur[l].hook_message, cur[l].hook_generated,
                              cur[l].status = "forwarded")

\* what the code does: on_notification is invoked and only the primary
\* message of its outcome is enqueued
C19_NotificationOutcomeForwarded ==
    \A l \in Loops :
      /\ (cur[l].message.type = "Notification"
          /\ cur[l].message.method \in DOMAIN hooks)
         => cur[l].op = "on_notification"
      /\ (/\ cur[l].op = "on_notification"
          /\ cur[l].status \in {"sending", "forwarded", "broken"})
         => EnqueuedAsPlanned(l, cur[l].hook_message, <<>>,
                              cur[l].status = "forwarded")

----------------------------------------------------------------------------
(* C20 *)

Sending(l) == pc[l] \in {"send_main", "send_generated"}

\* read loop l stands before a send on a full channel whose writer runs
Blocked(l) ==
    /\ Sending(l)
    /\ writer[Target(l)] = "running"
    /\ Len(queue[Target(l)]) = QueueCapacity

\* while a read loop is blocked it decodes and sends nothing, and the
\* channel loses a message only to its writer loop: the oldest, written to
\* the peer, or all of them when the writer loop ends on a failed write
BlockedStep ==
    \A l \in Loops :
      Blocked(l)
      => LET q == Target(l)
         IN /\ pc'[l] = pc[l] /\ cur'[l] = cur[l]
            /\ reader'[l] = reader[l] /\ nread'[l] = nread[l]
            /\ \/ queue'[q] = queue[q] /\ written'[q] = written[q]
               \/ /\ queue'[q] = Tail(queue[q])
                  /\ written'[q] = Append(written[q],
                                          [Head(queue[q]) EXCEPT !.msg = to_value(@)])
               \/ writer'[q] = "exited"

\* a channel holds what was sent on it and not yet written, in order, and
\* never more than its capacity; a send on a channel with room can go on
WithinCapacity ==
    /\ \A q \in Queues :
         /\ Len(queue[q]) <= QueueCapacity
         /\ writer[q] = "running"
            => /\ Len(enqLog[q]) = Len(written[q]) + Len(queue[q])
               /\ queue[q] = SubSeq(enqLog[q], Len(written[q]) + 1, Len(enqLog[q]))
    /\ \A l \in Loops :
         (Sending(l) /\ ~Blocked(l)) => ENABLED (SendMain(l) \/ SendGenerated(l))

\* C20: each channel holds at most its capacity of 100 messages; a read
\* loop whose send finds the channel full waits, decoding no further
\* message, until the writer loop has taken a message, and no queued message
\* is dropped or overwritten by the send.
C20_QueuesBoundedWithBackPressure ==
    /\ WithinCapacity
    /\ [][BlockedStep /\ WithinCapacity']_vars

\* the client sent one message more than the channel holds while the writer
\* loop wrote nothing: the channel is full and the client's read loop waits
\* with its last message
C20_Witness ==
    /\ session = Flood
    /\ Blocked(Client)
    /\ nread[Client] = QueueCapacity + 1
    /\ Len(queue["server"]) = QueueCapacity
    /\ written["server"] = <<>>

----------------------------------------------------------------------------
(* C21 *)

\* the client's first two messages are requests with one id and two
\* different hooked methods
SameIdTwice ==
    LET r1 == Decoded(Client, 1).msg
        r2 == Decoded(Client, 2).msg
    IN /\ r1.type = "Request" /\ r2.type = "Request"
       /\ r1.id = r2.id
       /\ r1.method \in DOMAIN hooks /\ r2.method \in DOMAIN hooks
       /\ r1.method # r2.method

\* the server loop decodes a response with the id of those requests
RepeatedIdAnswered ==
    /\ SameIdTwice
    /\ nread[Client] = 2
    /\ Decodes(Server)
    /\ Incoming(Server).msg.type = "Response"
    /\ Incoming(Server).msg.id = Decoded(Client, 2).msg.id

C21_Dispatch ==
    LET m2 == Decoded(Client, 2).msg
    IN \* recording an id that is in the table replaces the method
       /\ (/\ Decodes(Client)
           /\ Incoming(Client).msg.type = "Request"
           /\ Incoming(Client).msg.method \in DOMAIN hooks
           /\ Incoming(Client).msg.id \in DOMAIN pending_requests)
          => pending_requests' =
                [pending_requests EXCEPT ![Incoming(Client).msg.id] =
                    Incoming(Client).msg.method]
       \* the first response goes to the hook of the second method
       /\ (RepeatedIdAnswered /\ nread[Server] = 0)
          => /\ pc'[Server] = "hook"
             /\ cur'[Server].op = "on_response"
             /\ cur'[Server].hook = hooks[m2.method]
             /\ m2.id \notin DOMAIN pending_requests'
       \* the second response, after that, passes through
       /\ (/\ RepeatedIdAnswered /\ nread[Server] = 1
           /\ cur[Server].op = "on_response"
           /\ cur[Server].hook = hooks[m2.method])
          => /\ pc'[Server] = "send_main"
             /\ cur'[Server].hook = ""
             /\ cur'[Server].main_message = Incoming(Server).msg
             /\ cur'[Server].generated_messages = <<>>
             /\ pending_requests' = pending_requests

\* C21: recording a request id that is already in the correlation table
\* overwrites the entry: after two hooked client requests with one id and
\* the methods m1, then m2, the table holds one entry for the id, with m2;
\* the first response with that id is dispatched to the hook of m2 and a
\* second response with that id passes through with no hook invoked.
C21_SameIdOverwrites ==
    /\ [][C21_Dispatch]_vars
    /\ []((SameIdTwice /\ nread[Client] = 2 /\ nread[Server] = 0)
          => /\ DOMAIN pending_requests = {Decoded(Client, 2).msg.id}
             /\ pending_requests[Decoded(Client, 2).msg.id]
                  = Decoded(Client, 2).msg.method)

\* both requests were recorded, then both responses dispatched: the first
\* took the entry of the second method to its hook, the second found none
\* and was forwarded with no hook
C21_Witness ==
    /\ SameIdTwice
    /\ nread[Client] = 2
    /\ cur[Server].n = 2
    /\ cur[Server].message.type = "Response"
    /\ cur[Server].hook = ""
    /\ cur[Server].status = "forwarded"
    /\ Len(EntriesOf(Server, 1, "client")) = 1
    /\ pending_requests = EmptyMap

----------------------------------------------------------------------------
(* C22 *)

\* a message of a kind its read loop does not dispatch: a request from the
\* server, a response from the client
OffSide(l, message) ==
    \/ l = Server /\ message.type = "Request"
    \/ l = Client /\ message.type = "Response"

C22_Dispatch ==
    \A l \in Loops :
      (Decodes(l) /\ Incoming(l).ok /\ OffSide(l, Incoming(l).msg))
      => /\ pending_requests' = pending_requests
         /\ pc'[l] = "send_main"
         /\ cur'[l].hook = ""
         /\ cur'[l].main_message = Incoming(l).msg
         /\ cur'[l].generated_messages = <<>>

\* C22: a request that arrives from the server and a response that arrives
\* from the client are forwarded unchanged to the other side with no hook
\* invoked, also when the method has a hook or the id has an entry in the
\* correlation table, and they leave the table unchanged.
C22_OffSidePassesThrough ==
    /\ [][C22_Dispatch]_vars
    /\ [](\A l \in Loops :
            OffSide(l, cur[l].message)
            => /\ cur[l].hook = ""
               /\ pc[l] # "hook"
               /\ EnqueuedAsPlanned(l, cur[l].message, <<>>,
                                    cur[l].status = "forwarded")
               /\ cur[l].status \in {"sending", "forwarded", "broken"})

\* the server's request for a hooked method went to the client as it came
C22_Witness ==
    /\ cur[Server].message = Request(1, "foo", JInt(1))
    /\ cur[Server].status = "forwarded"
    /\ cur[Server].hook = ""
    /\ EntriesOf(Server, cur[Server].n, "client") # <<>>
    /\ EntriesOf(Server, cur[Server].n, "client")[1].msg = Request(1, "foo", JInt(1))
    /\ 1 \notin DOMAIN pending_requests

\* the client's response went to the server as it came while the table
\* held an entry for its id, which is still there
C22_ClientResponseReached ==
    /\ cur[Client].message = Response(1, JInt(1), JAbsent)
    /\ cur[Client].status = "forwarded"
    /\ 1 \in DOMAIN pending_requests

----------------------------------------------------------------------------
(* C23 *)

\* on_request has failed for the request the client loop dispatched last
RequestHookFailed ==
    cur[Client].op = "on_request" /\ cur[Client].status = "hook_error"

C23_Dispatch ==
    \* the failure leaves the table and the queues as they are
    /\ (pc[Client] = "hook" /\ cur[Client].op = "on_request"
        /\ cur'[Client].status = "hook_error")
       => /\ pending_requests' = pending_requests
          /\ queue' = queue
          /\ enqLog' = enqLog
    \* the first response with the id of the failed request finds the entry
    /\ (/\ RequestHookFailed
        /\ ~ResponseSeen
        /\ Decodes(Server)
        /\ Incoming(Server).msg.type = "Response"
        /\ Incoming(Server).msg.id = cur[Client].message.id)
       => /\ pc'[Server] = "hook"
          /\ cur'[Server].op = "on_response"
          /\ cur'[Server].hook = hooks[cur[Client].message.method]

\* C23: when on_request fails with a hook error the request is not
\* forwarded to the server, but the entry recorded for its id stays in the
\* correlation table; a later response from the server with that id finds
\* the entry and has on_response of that method's hook invoked.
C23_FailedRequestStaysRecorded ==
    /\ [][C23_Dispatch]_vars
    /\ [](RequestHookFailed
          => /\ SentIndices(Client, cur[Client].n) = {}
             /\ Recorded(pending_requests) \/ ResponseSeen)

\* on_request failed for request 1, nothing of it was enqueued, and the
\* server's response 1 is with on_response of the same hook
C23_Witness ==
    /\ RequestHookFailed
    /\ cur[Client].message = Request(1, "foo", JInt(1))
    /\ enqLog["server"] = <<>>
    /\ pc[Server] = "hook"
    /\ cur[Server].op = "on_response"
    /\ cur[Server].message.id = 1
    /\ cur[Server].hook = "FooHook"

====
